---- MODULE Spec2Model ----
(***************************************************************************)
(* Upstream cluster membership (source/common/upstream/upstream_impl.cc):  *)
(* host objects, the dynamic host list reconciliation, the published host  *)
(* set, strict-DNS resolve targets and cluster construction.               *)
(*                                                                         *)
(* Host objects live in a heap indexed by object identity (HostSharedPtr): *)
(* every list holds identities, so a weight or health flag changed in      *)
(* place is seen through every list that shares the object.                *)
(***************************************************************************)
EXTENDS Integers, Sequences, FiniteSets, TLC

\* ------------------------------------------------------------- bounds
\* Distinct addresses (canonical "ip:port" strings) a DNS name resolves to,
\* for one resolve target taken alone.
NumDnsAddrs == 3
\* Distinct addresses an endpoint discovery service reports.
NumEdsAddrs == 2
\* Longest candidate list handed to one reconciliation (a DNS answer, a
\* discovery response, a static host list).
MaxCands == 2
\* Resolve targets (configured DNS names) of the strict-DNS cluster.
NumTargets == 2
\* Distinct addresses the names of the strict-DNS cluster resolve to.
NumClusterAddrs == 2
\* Entries of the circuit breakers' thresholds list.
MaxThresholds == 2
\* Threads reading the published host set.
NumReaders == 1
\* Hosts the outlier detector keeps ejected at one time.
MaxEjected == 1

Targets == 1..NumTargets
Readers == 1..NumReaders

\* Identities: the hosts retained by every target or list plus the candidates
\* of the running call.
HostIds == 1..((NumTargets + 1) * MaxCands + NumEdsAddrs)

\* initial_weight values an endpoint discovery service gives the HostImpl
\* constructor: below the floor and above the ceiling of HostImpl::weight.
InitialWeights == {0, 101}

\* Host::HealthFlag
HealthFlags == {"FAILED_ACTIVE_HC", "FAILED_OUTLIER_CHECK"}

\* ------------------------------------------------------------- state
VARIABLES
  heap,           \* object identity -> [address, weight, health_flags]
  discovery,      \* what feeds the dynamic cluster: "strict_dns" or "eds"
  current_hosts,  \* the retained host list of a dynamic cluster
  last,           \* the most recent updateDynamicHostList call: inputs and outputs
  op,             \* the operation that produced the current state
  cluster,        \* "none" before construction, then "STATIC" or "STRICT_DNS"
  ctor_next,      \* the target whose startResolve the constructor calls next
  resolve_targets,       \* target -> [hosts_, active_query_, timer_enabled, pending]
  host_set,              \* the published hosts_, healthy_hosts_ and per-zone lists
  initialize_callback_,  \* TRUE while a callback is registered
  initialized_,
  init_calls,            \* how often the initialize callback has run
  reader_view,           \* reader -> what its last read of the host set showed
  config,                \* the envoy::api::v2::Cluster a cluster is created from
  created,               \* how far ClusterImplBase::create got, and what it built
  tracing                \* whether last and op record the steps of the cluster

dyn_vars == <<discovery, current_hosts>>

cluster_vars ==
  <<cluster, ctor_next, resolve_targets, host_set, initialize_callback_,
    initialized_, init_calls, reader_view>>

create_vars == <<config, created>>

vars == <<heap, last, op, tracing, dyn_vars, cluster_vars, create_vars>>

\* ------------------------------------------------------------- helpers
Range(s) == {s[i] : i \in 1..Len(s)}

\* F applied to the value of v, v evaluated once.
Eval(F(_), v) == CHOOSE r \in {F(x) : x \in {v}} : TRUE

\* The place of h in the duplicate-free sequence s.
Pos(s, h) == CHOOSE i \in 1..Len(s) : s[i] = h

Min2(a, b) == IF a < b THEN a ELSE b

Max2(a, b) == IF a > b THEN a ELSE b

\* A heap slot that holds no object.
NoHost == [address |-> 0, weight |-> 0, health_flags |-> {}]

\* What an observer reads from host object h.
View(hp, h) ==
  [id |-> h, address |-> hp[h].address, weight |-> hp[h].weight,
   health_flags |-> hp[h].health_flags]

Views(hp, s) == [i \in 1..Len(s) |-> View(hp, s[i])]

Ids(vs) == [i \in 1..Len(vs) |-> vs[i].id]

AddrSet(vs) == {vs[i].address : i \in 1..Len(vs)}

\* The n smallest identities not alive.
FreshIds(n, live) ==
  LET free == HostIds \ live
  IN [i \in 1..n |-> CHOOSE x \in free : Cardinality({y \in free : y < x}) = i - 1]

\* ------------------------------------------------------------- Host
MinWeight == 1
MaxWeight == 100

\* HostImpl::weight(uint32_t): weight_ = max(1, min(100, new_weight)).
HostImplWeight(new_weight) == Max2(MinWeight, Min2(MaxWeight, new_weight))

\* new HostImpl(..., address, ..., initial_weight, ...): no health flag set.
NewHost(address, initial_weight) ==
  [address |-> address, weight |-> HostImplWeight(initial_weight), health_flags |-> {}]

\* Host::healthFlagGet(flag)
healthFlagGet(hp, h, flag) == flag \in hp[h].health_flags

\* Host::healthFlagSet(flag)
healthFlagSet(hp, h, flag) ==
  [hp EXCEPT ![h].health_flags = @ \cup {flag}]

\* Host::healthFlagClear(flag)
healthFlagClear(hp, h, flag) ==
  [hp EXCEPT ![h].health_flags = @ \ {flag}]

\* Host::healthy(): no health flag is set.
healthy(hp, h) == hp[h].health_flags = {}

\* ------------------------------------------------------------- reconciliation
\* The locals of updateDynamicHostList at its entry.
UpdateEntry(hp, current) ==
  [heap |-> hp, current_hosts |-> current, final_hosts |-> <<>>,
   hosts_added |-> <<>>, host_addresses |-> {}, max_host_weight |-> 1]

\* Mutant of MatchCandidate: the candidate object takes the place of the
\* retained host it matched.
MatchCandidateReplace(st, host) ==
  LET a == st.heap[host].address
      Other(h) == st.heap[h].address # a
  IN IF \A h \in Range(st.current_hosts) : Other(h) THEN st
     ELSE [st EXCEPT
             !.max_host_weight = Max2(@, st.heap[host].weight),
             !.final_hosts = Append(@, host),
             !.current_hosts = SelectSeq(st.current_hosts, Other)]

\* Mutant of MatchCandidate: the matched host keeps its old weight.
MatchCandidateKeepWeight(st, host) ==
  LET a == st.heap[host].address
      Same(h) == st.heap[h].address = a
      Other(h) == st.heap[h].address # a
      matched == SelectSeq(st.current_hosts, Same)
  IN IF matched = <<>> THEN st
     ELSE [st EXCEPT
             !.max_host_weight = Max2(@, st.heap[host].weight),
             !.final_hosts = @ \o matched,
             !.current_hosts = SelectSeq(st.current_hosts, Other)]

\* Lines 370-386: every retained host with the candidate's address gets the
\* candidate's weight, moves to final_hosts and leaves current_hosts.
MatchCandidate(st, host) ==
  LET a == st.heap[host].address
      w == st.heap[host].weight
      Same(h) == st.heap[h].address = a
      Other(h) == st.heap[h].address # a
      matched == SelectSeq(st.current_hosts, Same)
  IN IF matched = <<>> THEN st
     ELSE [st EXCEPT
             !.max_host_weight = Max2(@, w),
             !.heap = [h \in HostIds |->
                         IF h \in Range(matched)
                         THEN [st.heap[h] EXCEPT !.weight = HostImplWeight(w)]
                         ELSE st.heap[h]],
             !.final_hosts = @ \o matched,
             !.current_hosts = SelectSeq(st.current_hosts, Other)]

\* Mutant of AddCandidate: the new host is not reported in hosts_added.
AddCandidateUnreported(st, host, depend_on_hc) ==
  [st EXCEPT
     !.max_host_weight = Max2(@, st.heap[host].weight),
     !.final_hosts = Append(@, host),
     !.heap = IF depend_on_hc
              THEN healthFlagSet(st.heap, host, "FAILED_ACTIVE_HC")
              ELSE st.heap]

\* Mutant of AddCandidate: the new host is not marked, whatever depend_on_hc.
AddCandidateUnmarked(st, host, depend_on_hc) ==
  [st EXCEPT
     !.max_host_weight = Max2(@, st.heap[host].weight),
     !.final_hosts = Append(@, host),
     !.hosts_added = Append(@, host)]

\* Lines 388-400: a candidate that matched nothing is new.
AddCandidate(st, host, depend_on_hc) ==
  [st EXCEPT
     !.max_host_weight = Max2(@, st.heap[host].weight),
     !.final_hosts = Append(@, host),
     !.hosts_added = Append(@, host),
     !.heap = IF depend_on_hc
              THEN healthFlagSet(st.heap, host, "FAILED_ACTIVE_HC")
              ELSE st.heap]

\* Mutant of IsDuplicate: no candidate is skipped.
IsDuplicateNever(st, host) == FALSE

\* Lines 364-368: a candidate whose address was seen before in this call is
\* skipped.
IsDuplicate(st, host) == st.heap[host].address \in st.host_addresses

\* Lines 364-401: one candidate.
ProcessCandidate(st, host, depend_on_hc) ==
  IF IsDuplicate(st, host) THEN st
  ELSE LET Found(m) ==
             IF Len(m.current_hosts) < Len(st.current_hosts)
             THEN m
             ELSE AddCandidate(m, host, depend_on_hc)
       IN Eval(Found,
               MatchCandidate(
                 [st EXCEPT !.host_addresses = @ \cup {st.heap[host].address}],
                 host))

RECURSIVE CandidateLoop(_, _, _, _)
CandidateLoop(st, new_hosts, i, depend_on_hc) ==
  IF i > Len(new_hosts) THEN st
  ELSE LET Rest(nx) == CandidateLoop(nx, new_hosts, i + 1, depend_on_hc)
       IN Eval(Rest, ProcessCandidate(st, new_hosts[i], depend_on_hc))

\* Mutant of StalePass: the test of FAILED_ACTIVE_HC is inverted.
StalePassInverted(st, depend_on_hc) ==
  IF st.current_hosts # <<>> /\ depend_on_hc
  THEN LET Keep(h) == healthFlagGet(st.heap, h, "FAILED_ACTIVE_HC")
           Drop(h) == ~healthFlagGet(st.heap, h, "FAILED_ACTIVE_HC")
       IN [st EXCEPT
             !.final_hosts = @ \o SelectSeq(st.current_hosts, Keep),
             !.current_hosts = SelectSeq(st.current_hosts, Drop)]
  ELSE st

\* Mutant of StalePass: no stale host is kept.
StalePassKeepsNone(st, depend_on_hc) == st

\* Lines 403-417: with depend_on_hc, a host left in current_hosts that has not
\* failed active health checking is kept.
StalePass(st, depend_on_hc) ==
  IF st.current_hosts # <<>> /\ depend_on_hc
  THEN LET Keep(h) == ~healthFlagGet(st.heap, h, "FAILED_ACTIVE_HC")
           Drop(h) == healthFlagGet(st.heap, h, "FAILED_ACTIVE_HC")
           kept == SelectSeq(st.current_hosts, Keep)
           MaxOf(s) == IF s = <<>> THEN 0
                       ELSE CHOOSE w \in {st.heap[h].weight : h \in Range(s)} :
                              \A h \in Range(s) : st.heap[h].weight <= w
       IN [st EXCEPT
             !.max_host_weight = Max2(@, MaxOf(kept)),
             !.final_hosts = @ \o kept,
             !.current_hosts = SelectSeq(st.current_hosts, Drop)]
  ELSE st

\* Mutant of UpdateReturn: only added hosts count as a change.
UpdateReturnAddedOnly(st) ==
  IF st.hosts_added # <<>>
  THEN [heap |-> st.heap, current_hosts |-> st.final_hosts,
        hosts_added |-> st.hosts_added, hosts_removed |-> st.current_hosts,
        max_host_weight |-> st.max_host_weight, changed |-> TRUE]
  ELSE [heap |-> st.heap, current_hosts |-> st.final_hosts,
        hosts_added |-> st.hosts_added, hosts_removed |-> <<>>,
        max_host_weight |-> st.max_host_weight, changed |-> FALSE]

\* Mutant of UpdateReturn: when nothing was added or removed the retained list
\* is handed back in the order it came in (the order of its identities).
UpdateReturnKeepOrder(st) ==
  IF st.hosts_added # <<>> \/ st.current_hosts # <<>>
  THEN [heap |-> st.heap, current_hosts |-> st.final_hosts,
        hosts_added |-> st.hosts_added, hosts_removed |-> st.current_hosts,
        max_host_weight |-> st.max_host_weight, changed |-> TRUE]
  ELSE LET S == Range(st.final_hosts)
           asc == CHOOSE q \in [1..Cardinality(S) -> S] :
                    \A i, j \in 1..Cardinality(S) : i < j => q[i] < q[j]
       IN [heap |-> st.heap, current_hosts |-> asc,
           hosts_added |-> st.hosts_added, hosts_removed |-> <<>>,
           max_host_weight |-> st.max_host_weight, changed |-> FALSE]

\* Lines 421-430: the outputs.
UpdateReturn(st) ==
  IF st.hosts_added # <<>> \/ st.current_hosts # <<>>
  THEN [heap |-> st.heap, current_hosts |-> st.final_hosts,
        hosts_added |-> st.hosts_added, hosts_removed |-> st.current_hosts,
        max_host_weight |-> st.max_host_weight, changed |-> TRUE]
  ELSE [heap |-> st.heap, current_hosts |-> st.final_hosts,
        hosts_added |-> st.hosts_added, hosts_removed |-> <<>>,
        max_host_weight |-> st.max_host_weight, changed |-> FALSE]

\* Mutant of updateDynamicHostList: an empty candidate list is taken for a
\* failure and changes nothing.
updateDynamicHostListSkipEmpty(hp, new_hosts, current, depend_on_hc) ==
  LET Stale(st) == StalePass(st, depend_on_hc)
  IN IF new_hosts = <<>>
     THEN [heap |-> hp, current_hosts |-> current, hosts_added |-> <<>>,
           hosts_removed |-> <<>>, max_host_weight |-> 1, changed |-> FALSE]
     ELSE Eval(UpdateReturn,
               Eval(Stale,
                    CandidateLoop(UpdateEntry(hp, current), new_hosts, 1, depend_on_hc)))

\* BaseDynamicClusterImpl::updateDynamicHostList
updateDynamicHostList(hp, new_hosts, current, depend_on_hc) ==
  LET Stale(st) == StalePass(st, depend_on_hc)
  IN Eval(UpdateReturn,
          Eval(Stale,
               CandidateLoop(UpdateEntry(hp, current), new_hosts, 1, depend_on_hc)))

\* ------------------------------------------------------------- call record
NoCall ==
  [target |-> 0, new_hosts |-> <<>>, prev |-> <<>>, depend_on_hc |-> FALSE,
   hosts_added |-> <<>>, hosts_removed |-> <<>>, changed |-> FALSE]

\* Identities are names: the objects alive after a call are renamed in the
\* order ord, so that two states that differ only in the names are one state.
RenameHeap(hp, ord, nlive) ==
  [i \in HostIds |-> IF i <= nlive THEN hp[ord[i]] ELSE NoHost]

RenameIds(s, ord) == [i \in 1..Len(s) |-> Pos(ord, s[i])]

RenameViews(vs, ord) == [i \in 1..Len(vs) |-> [vs[i] EXCEPT !.id = Pos(ord, @)]]

\* ------------------------------------------------------------- dynamic cluster
\* Addresses and what a discovery source asks of one reconciliation:
\* a strict-DNS resolve target builds hosts of weight 1 and never depends on
\* health checking (lines 517-524).
AddrsOf(d) == IF d = "strict_dns" THEN 1..NumDnsAddrs ELSE 1..NumEdsAddrs

WeightsOf(d) == IF d = "strict_dns" THEN {1} ELSE InitialWeights

GatingOf(d) == IF d = "strict_dns" THEN {FALSE} ELSE BOOLEAN

\* A discovery update: the caller builds one host per discovered endpoint and
\* reconciles the retained list against them; the candidates left unused and
\* the hosts removed are destroyed when the caller returns.
UpdateCall(as, ws, depend_on_hc) ==
  \E new_hosts \in {FreshIds(Len(as), Range(current_hosts))} :
  \E hp0 \in {[h \in HostIds |->
                 IF h \in Range(new_hosts)
                 THEN NewHost(as[Pos(new_hosts, h)], ws[Pos(new_hosts, h)])
                 ELSE heap[h]]} :
  \E r \in {updateDynamicHostList(hp0, new_hosts, current_hosts, depend_on_hc)} :
  \E ord \in {LET Unused(h) == h \notin Range(r.current_hosts)
               IN r.current_hosts \o SelectSeq(current_hosts, Unused)
                                 \o SelectSeq(new_hosts, Unused)} :
     /\ current_hosts' = RenameIds(r.current_hosts, ord)
     /\ heap' = RenameHeap(r.heap, ord, Len(r.current_hosts))
     /\ last' = [target |-> 0,
                 new_hosts |-> RenameViews(Views(hp0, new_hosts), ord),
                 prev |-> RenameViews(Views(heap, current_hosts), ord),
                 depend_on_hc |-> depend_on_hc,
                 hosts_added |-> RenameIds(r.hosts_added, ord),
                 hosts_removed |-> RenameViews(Views(r.heap, r.hosts_removed), ord),
                 changed |-> r.changed]
     /\ op' = "update"
     /\ UNCHANGED <<discovery, cluster_vars, create_vars, tracing>>

Update ==
  \E n \in 0..MaxCands :
    \E as \in [1..n -> AddrsOf(discovery)], ws \in [1..n -> WeightsOf(discovery)],
       hc \in GatingOf(discovery) :
      UpdateCall(as, ws, hc)

\* The health checker or the outlier detector marks a host.
HealthFlagSet ==
  \E h \in Range(current_hosts), f \in HealthFlags :
    /\ ~healthFlagGet(heap, h, f)
    /\ heap' = healthFlagSet(heap, h, f)
    /\ last' = NoCall
    /\ op' = "flag"
    /\ UNCHANGED <<dyn_vars, cluster_vars, create_vars, tracing>>

\* The health checker or the outlier detector clears a host's mark.
HealthFlagClear ==
  \E h \in Range(current_hosts), f \in HealthFlags :
    /\ healthFlagGet(heap, h, f)
    /\ heap' = healthFlagClear(heap, h, f)
    /\ last' = NoCall
    /\ op' = "flag"
    /\ UNCHANGED <<dyn_vars, cluster_vars, create_vars, tracing>>

\* ------------------------------------------------------------- host set
EmptyHostSet ==
  [hosts_ |-> <<>>, healthy_hosts_ |-> <<>>, hosts_per_zone_ |-> <<>>,
   healthy_hosts_per_zone_ |-> <<>>, torn |-> FALSE]

\* ClusterImplBase::empty_host_lists_
empty_host_lists_ == <<>>

\* Mutant of createHealthyHostList: only a failed active health check counts.
createHealthyHostListActiveOnly(hp, hosts) ==
  LET Ok(h) == ~healthFlagGet(hp, h, "FAILED_ACTIVE_HC")
  IN SelectSeq(hosts, Ok)

\* ClusterImplBase::createHealthyHostList
createHealthyHostList(hp, hosts) ==
  LET Ok(h) == healthy(hp, h)
  IN SelectSeq(hosts, Ok)

\* ClusterImplBase::createHealthyHostLists
createHealthyHostLists(hp, hosts) ==
  [z \in 1..Len(hosts) |-> createHealthyHostList(hp, hosts[z])]

\* Mutant of runUpdateCallbacks: removed hosts alone do not count as a
\* membership change.
runUpdateCallbacksAddedOnly(hs, hosts_added, hosts_removed) ==
  [membership_change_inc |-> hosts_added # <<>>,
   membership_healthy_ |-> Len(hs.healthy_hosts_),
   membership_total_ |-> Len(hs.hosts_),
   hosts_added |-> hosts_added, hosts_removed |-> hosts_removed,
   order |-> <<"stats", "callbacks">>]

\* ClusterImplBase::runUpdateCallbacks on the host set hs: whether
\* membership_change_ is incremented, the values the two gauges are set to,
\* what HostSetImpl::runUpdateCallbacks hands to the member-update callbacks,
\* and the order of the two.
runUpdateCallbacks(hs, hosts_added, hosts_removed) ==
  [membership_change_inc |-> hosts_added # <<>> \/ hosts_removed # <<>>,
   membership_healthy_ |-> Len(hs.healthy_hosts_),
   membership_total_ |-> Len(hs.hosts_),
   hosts_added |-> hosts_added, hosts_removed |-> hosts_removed,
   order |-> <<"stats", "callbacks">>]

\* A host set left as it is: nothing is published.
NotPublished(hs) == [set |-> hs, publishes |-> <<>>]

\* HostSetImpl::updateHosts: every list of the published host set is replaced
\* together (torn tells that the lists come from different publishes), then
\* runUpdateCallbacks runs on the new lists.  The result is the new host set
\* and the publishes made.
updateHosts(hs, hosts, healthy_hosts, hosts_per_zone, healthy_hosts_per_zone, hosts_added, hosts_removed) ==
  LET Published(set) ==
        [set |-> set,
         publishes |-> <<runUpdateCallbacks(set, hosts_added, hosts_removed)>>]
  IN Eval(Published,
          [hosts_ |-> hosts, healthy_hosts_ |-> healthy_hosts,
           hosts_per_zone_ |-> hosts_per_zone,
           healthy_hosts_per_zone_ |-> healthy_hosts_per_zone,
           torn |-> FALSE])

\* Mutant of reloadHealthyHosts: the healthy hosts are published as the hosts.
reloadHealthyHostsOnly(hp, hs) ==
  updateHosts(hs, createHealthyHostList(hp, hs.hosts_),
              createHealthyHostList(hp, hs.hosts_),
              hs.hosts_per_zone_, createHealthyHostLists(hp, hs.hosts_per_zone_),
              <<>>, <<>>)

\* ClusterImplBase::reloadHealthyHosts
reloadHealthyHosts(hp, hs) ==
  updateHosts(hs, hs.hosts_, createHealthyHostList(hp, hs.hosts_),
              hs.hosts_per_zone_, createHealthyHostLists(hp, hs.hosts_per_zone_),
              <<>>, <<>>)

\* The hosts_ of every target from target t on, in target order.
RECURSIVE ConcatTargets(_, _)
ConcatTargets(tgts, t) ==
  IF t > NumTargets THEN <<>>
  ELSE tgts[t].hosts_ \o ConcatTargets(tgts, t + 1)

\* Mutant of updateAllHosts: the healthy list is taken from the host list
\* published before.
updateAllHostsStaleHealthy(hp, tgts, hs, hosts_added, hosts_removed) ==
  updateHosts(hs, ConcatTargets(tgts, 1), createHealthyHostList(hp, hs.hosts_),
              empty_host_lists_, empty_host_lists_, hosts_added, hosts_removed)

\* Mutant of updateAllHosts: the hosts of the last target are left out.
updateAllHostsButLast(hp, tgts, hs, hosts_added, hosts_removed) ==
  LET Publish(new_hosts) ==
        updateHosts(hs, new_hosts, createHealthyHostList(hp, new_hosts),
                    empty_host_lists_, empty_host_lists_, hosts_added, hosts_removed)
      Earlier(h) == h \notin Range(tgts[NumTargets].hosts_)
  IN Eval(Publish, SelectSeq(ConcatTargets(tgts, 1), Earlier))

\* Mutant of updateAllHosts: the hosts removed stay published, after the
\* targets' hosts.
updateAllHostsKeepRemoved(hp, tgts, hs, hosts_added, hosts_removed) ==
  LET Publish(new_hosts) ==
        updateHosts(hs, new_hosts, createHealthyHostList(hp, new_hosts),
                    empty_host_lists_, empty_host_lists_, hosts_added, hosts_removed)
  IN Eval(Publish, ConcatTargets(tgts, 1) \o hosts_removed)

\* StrictDnsClusterImpl::updateAllHosts
updateAllHosts(hp, tgts, hs, hosts_added, hosts_removed) ==
  LET Publish(new_hosts) ==
        updateHosts(hs, new_hosts, createHealthyHostList(hp, new_hosts),
                    empty_host_lists_, empty_host_lists_, hosts_added, hosts_removed)
  IN Eval(Publish, ConcatTargets(tgts, 1))

\* ------------------------------------------------------------- resolve target
\* StrictDnsClusterImpl::ResolveTarget::ResolveTarget; pending counts the
\* resolutions the DNS resolver owes this target a callback for, cancels the
\* calls of ActiveDnsQuery::cancel.
NewTarget ==
  [hosts_ |-> <<>>, active_query_ |-> FALSE, timer_enabled |-> FALSE, pending |-> 0,
   cancels |-> 0]

\* Mutant of startResolve: the refresh timer is armed when the resolution
\* starts.
startResolveArmsTimer(tg) ==
  [tg EXCEPT !.active_query_ = TRUE, !.timer_enabled = TRUE,
             !.pending = Min2(2, @ + 1)]

\* ResolveTarget::startResolve (lines 500-505): the query handle is kept.
startResolve(tg) ==
  [tg EXCEPT !.active_query_ = TRUE, !.pending = Min2(2, @ + 1)]

\* Mutant of CompleteTarget: the timer is armed only when the list changed.
CompleteTargetTimerIfChanged(tg, r) ==
  [tg EXCEPT !.active_query_ = FALSE, !.pending = @ - 1,
             !.hosts_ = r.current_hosts,
             !.timer_enabled = r.changed]

\* Lines 507-527, the target's part: the query handle is cleared and hosts_ is
\* what updateDynamicHostList (result r) left in it; the timer is not armed yet.
ReconciledTarget(tg, r) ==
  [tg EXCEPT !.active_query_ = FALSE, !.pending = @ - 1,
             !.hosts_ = r.current_hosts]

\* Lines 507-539, the target's part: the query handle is cleared, hosts_ is
\* what updateDynamicHostList (result r) left in it, the timer is armed.
CompleteTarget(tg, r) ==
  [tg EXCEPT !.active_query_ = FALSE, !.pending = @ - 1,
             !.hosts_ = r.current_hosts,
             !.timer_enabled = TRUE]

\* The initialize callback has not run in this step.
NotObserved ==
  [ran |-> FALSE, hosts_ |-> <<>>, publishes |-> 0,
   active_query_ |-> FALSE, timer_enabled |-> FALSE]

\* Mutant of InitializeObserves: the callback runs first thing in the
\* completion, before the reconciliation and the publish.
InitializeObservesUnpublished(cb, tg, hs, p) ==
  IF cb
  THEN [ran |-> TRUE, hosts_ |-> hs.hosts_, publishes |-> 0,
        active_query_ |-> tg.active_query_, timer_enabled |-> tg.timer_enabled]
  ELSE NotObserved

\* Lines 533-536: what a registered initialize callback finds when it runs:
\* the published all-hosts list and the publishes already made (hs is the host
\* set before the completion, p the outcome of lines 522-527), and the
\* completing target tg as lines 507-527 left it.
InitializeObserves(cb, tg, hs, p) ==
  IF cb
  THEN [ran |-> TRUE, hosts_ |-> p.set.hosts_, publishes |-> Len(p.publishes),
        active_query_ |-> tg.active_query_, timer_enabled |-> tg.timer_enabled]
  ELSE NotObserved

\* Mutant of DestroyTarget: the outstanding query is not cancelled.
DestroyTargetNoCancel(tg) ==
  [tg EXCEPT !.hosts_ = <<>>, !.timer_enabled = FALSE]

\* ResolveTarget::~ResolveTarget: an outstanding query is cancelled, and a
\* cancelled query's callback is never invoked; the timer and the hosts go
\* with the target.
DestroyTarget(tg) ==
  IF tg.active_query_
  THEN [tg EXCEPT !.cancels = @ + 1, !.pending = 0, !.active_query_ = FALSE,
                  !.hosts_ = <<>>, !.timer_enabled = FALSE]
  ELSE [tg EXCEPT !.hosts_ = <<>>, !.timer_enabled = FALSE]

\* Mutant of FireInitializeCallback: the callback stays registered.
FireInitializeCallbackKeep(cb, calls) ==
  IF cb THEN [initialize_callback_ |-> TRUE, init_calls |-> Min2(2, calls + 1)]
  ELSE [initialize_callback_ |-> FALSE, init_calls |-> calls]

\* Lines 533-536: a registered initialize callback runs and is cleared.
FireInitializeCallback(cb, calls) ==
  IF cb THEN [initialize_callback_ |-> FALSE, init_calls |-> Min2(2, calls + 1)]
  ELSE [initialize_callback_ |-> FALSE, init_calls |-> calls]

\* s without the later occurrences of an element.
RECURSIVE DedupFrom(_, _)
DedupFrom(s, i) ==
  IF i > Len(s) THEN <<>>
  ELSE IF \E j \in 1..(i - 1) : s[j] = s[i] THEN DedupFrom(s, i + 1)
       ELSE <<s[i]>> \o DedupFrom(s, i + 1)

\* Every object a list of the cluster refers to, in a fixed order.
LiveOrder(tgts, hs) ==
  DedupFrom(ConcatTargets(tgts, 1) \o hs.hosts_ \o hs.healthy_hosts_, 1)

RenameTargets(tgts, ord) ==
  [t \in Targets |-> [tgts[t] EXCEPT !.hosts_ = RenameIds(@, ord)]]

RenameHostSet(hs, ord) ==
  [hs EXCEPT !.hosts_ = RenameIds(@, ord), !.healthy_hosts_ = RenameIds(@, ord)]

RenamePublishes(ps, ord) ==
  [i \in 1..Len(ps) |->
     [ps[i] EXCEPT !.hosts_added = RenameIds(@, ord),
                   !.hosts_removed = RenameIds(@, ord)]]

\* ------------------------------------------------------------- step record
\* What last holds, while tracing, about the step of the cluster that led to
\* the current state: the target and the answer of a DNS completion, the
\* target lists and the host set before the step, what updateDynamicHostList
\* returned, the publishes made, and whether a health check reported a change.
NoStep ==
  [target |-> 0, new_hosts |-> <<>>, prev_targets |-> <<>>, prev_set |-> EmptyHostSet,
   changed |-> FALSE, hosts_added |-> <<>>, hosts_removed |-> <<>>,
   publishes |-> <<>>, changed_state |-> FALSE, at_initialize |-> NotObserved]

\* last and op after the step named name with record rec.
Traced(name, rec) ==
  /\ last' = IF tracing THEN rec ELSE last
  /\ op' = IF tracing THEN name ELSE op
  /\ UNCHANGED tracing

\* ------------------------------------------------------------- clusters
\* StaticClusterImpl::StaticClusterImpl: one host of weight 1 per configured
\* address, published at once.
StaticClusterImpl ==
  /\ cluster = "none"
  /\ \E n \in 0..MaxCands : \E as \in [1..n -> 1..NumClusterAddrs] :
     \E new_hosts \in {[i \in 1..n |-> i]} :
     \E hp0 \in {[h \in HostIds |-> IF h <= n THEN NewHost(as[h], 1) ELSE NoHost]} :
     \E p \in {updateHosts(host_set, new_hosts, createHealthyHostList(hp0, new_hosts),
                           empty_host_lists_, empty_host_lists_, <<>>, <<>>)} :
       /\ heap' = hp0
       /\ host_set' = p.set
       /\ Traced("static", [NoStep EXCEPT !.prev_set = host_set,
                                          !.publishes = p.publishes])
  /\ cluster' = "STATIC"
  /\ UNCHANGED <<dyn_vars, create_vars, ctor_next, resolve_targets, initialize_callback_,
                 initialized_, init_calls, reader_view>>

\* StrictDnsClusterImpl::StrictDnsClusterImpl, lines 458-463: the targets.
StrictDnsClusterImpl ==
  /\ cluster = "none"
  /\ cluster' = "STRICT_DNS"
  /\ resolve_targets' = [t \in Targets |-> NewTarget]
  /\ ctor_next' = 1
  /\ Traced("targets", NoStep)
  /\ UNCHANGED <<heap, dyn_vars, create_vars, host_set, initialize_callback_, initialized_,
                 init_calls, reader_view>>

\* Lines 468-470: the constructor starts the resolution of the next target.
CtorStartResolve ==
  /\ cluster = "STRICT_DNS"
  /\ ctor_next \in Targets
  /\ resolve_targets' = [resolve_targets EXCEPT ![ctor_next] = startResolve(@)]
  /\ ctor_next' = ctor_next + 1
  /\ Traced("start", [NoStep EXCEPT !.target = ctor_next])
  /\ UNCHANGED <<heap, dyn_vars, create_vars, cluster, host_set, initialize_callback_,
                 initialized_, init_calls, reader_view>>

\* The refresh timer of target t fires (line 492): startResolve.
ResolveTimerOf(t) ==
  /\ cluster = "STRICT_DNS"
  /\ ctor_next > NumTargets
  /\ resolve_targets[t].timer_enabled
  /\ resolve_targets' =
       [resolve_targets EXCEPT ![t] = startResolve([@ EXCEPT !.timer_enabled = FALSE])]
  /\ Traced("timer", [NoStep EXCEPT !.target = t])
  /\ UNCHANGED <<heap, dyn_vars, create_vars, cluster, ctor_next, host_set,
                 initialize_callback_, initialized_, init_calls, reader_view>>

ResolveTimer == \E t \in Targets : ResolveTimerOf(t)

\* Lines 506-540: the DNS resolver delivers the answer of target t.
ResolveCallback(t, as) ==
  /\ cluster # "none"
  /\ resolve_targets[t].pending > 0
  /\ \E new_hosts \in {FreshIds(Len(as), Range(LiveOrder(resolve_targets, host_set)))} :
     \E hp0 \in {[h \in HostIds |->
                    IF h \in Range(new_hosts) THEN NewHost(as[Pos(new_hosts, h)], 1)
                    ELSE heap[h]]} :
     \E r \in {updateDynamicHostList(hp0, new_hosts, resolve_targets[t].hosts_, FALSE)} :
     \E tgts \in {[resolve_targets EXCEPT ![t] = CompleteTarget(@, r)]} :
     \E p \in {IF r.changed
               THEN updateAllHosts(r.heap, tgts, host_set, r.hosts_added, r.hosts_removed)
               ELSE NotPublished(host_set)} :
     \E seen \in {InitializeObserves(initialize_callback_,
                                      ReconciledTarget(resolve_targets[t], r),
                                      host_set, p)} :
     \E cb \in {FireInitializeCallback(initialize_callback_, init_calls)} :
     \E live \in {LiveOrder(tgts, p.set)} :
     \E ord \in {DedupFrom(live \o resolve_targets[t].hosts_ \o new_hosts
                                \o host_set.hosts_ \o host_set.healthy_hosts_, 1)} :
       /\ heap' = RenameHeap(r.heap, ord, Len(live))
       /\ resolve_targets' = RenameTargets(tgts, ord)
       /\ host_set' = RenameHostSet(p.set, ord)
       /\ initialize_callback_' = cb.initialize_callback_
       /\ init_calls' = cb.init_calls
       /\ initialized_' = TRUE
       /\ Traced("resolve",
                 [NoStep EXCEPT
                    !.target = t,
                    !.new_hosts = RenameViews(Views(hp0, new_hosts), ord),
                    !.prev_targets =
                       [u \in Targets |-> RenameIds(resolve_targets[u].hosts_, ord)],
                    !.prev_set = RenameHostSet(host_set, ord),
                    !.changed = r.changed,
                    !.hosts_added = RenameIds(r.hosts_added, ord),
                    !.hosts_removed = RenameIds(r.hosts_removed, ord),
                    !.publishes = RenamePublishes(p.publishes, ord),
                    !.at_initialize = [seen EXCEPT !.hosts_ = RenameIds(@, ord)]])
       /\ UNCHANGED <<dyn_vars, create_vars, cluster, ctor_next, reader_view>>

\* The resolver answers the outstanding resolution of target t.
ResolveOf(t) ==
  \E n \in 0..MaxCands :
    \E as \in [1..n -> 1..NumClusterAddrs] : ResolveCallback(t, as)

Resolve == \E t \in Targets : ResolveOf(t)

\* The cluster manager registers the initialize callback, once, on a cluster
\* that has not completed a resolution.
SetInitializedCb ==
  /\ cluster = "STRICT_DNS"
  /\ ctor_next > NumTargets
  /\ ~initialized_ /\ ~initialize_callback_ /\ init_calls = 0
  /\ initialize_callback_' = TRUE
  /\ Traced("register", NoStep)
  /\ UNCHANGED <<heap, dyn_vars, create_vars, cluster, ctor_next, resolve_targets, host_set,
                 initialized_, init_calls, reader_view>>

Running ==
  \/ cluster = "STATIC"
  \/ cluster = "STRICT_DNS" /\ ctor_next > NumTargets

\* Mutant of HostCheckCompleteCb: every completion reloads.
HostCheckCompleteCbAlways(hp, hs, changed_state) == reloadHealthyHosts(hp, hs)

\* Lines 271-277: the callback setHealthChecker registers.
HostCheckCompleteCb(hp, hs, changed_state) ==
  IF changed_state THEN reloadHealthyHosts(hp, hs) ELSE NotPublished(hs)

\* Line 286: the callback setOutlierDetector registers.
OutlierChangedStateCb(hp, hs) == reloadHealthyHosts(hp, hs)

\* The flag of host h as the collaborator leaves it before it notifies.
FlipFlag(hp, h, flag) ==
  IF healthFlagGet(hp, h, flag) THEN healthFlagClear(hp, h, flag)
  ELSE healthFlagSet(hp, h, flag)

\* The health checker completes a check of host h: when the check changed the
\* host's state it has set or cleared FAILED_ACTIVE_HC; then it notifies.
HostCheckComplete ==
  \E h \in Range(host_set.hosts_), changed_state \in BOOLEAN :
    /\ Running
    /\ \E hp \in {IF changed_state THEN FlipFlag(heap, h, "FAILED_ACTIVE_HC")
                  ELSE heap} :
       \E p \in {HostCheckCompleteCb(hp, host_set, changed_state)} :
         /\ heap' = hp
         /\ host_set' = p.set
         /\ Traced("host_check", [NoStep EXCEPT !.prev_set = host_set,
                                                !.publishes = p.publishes,
                                                !.changed_state = changed_state])
    /\ UNCHANGED <<dyn_vars, create_vars, cluster, ctor_next, resolve_targets,
                   initialize_callback_, initialized_, init_calls, reader_view>>

\* The outlier detector ejects or reinstates host h (it sets or clears
\* FAILED_OUTLIER_CHECK), then notifies.
OutlierChangedState ==
  \E h \in Range(host_set.hosts_) :
    /\ Running
    /\ \/ healthFlagGet(heap, h, "FAILED_OUTLIER_CHECK")
       \/ Cardinality({e \in Range(host_set.hosts_) :
                         healthFlagGet(heap, e, "FAILED_OUTLIER_CHECK")}) < MaxEjected
    /\ \E hp \in {FlipFlag(heap, h, "FAILED_OUTLIER_CHECK")} :
       \E p \in {OutlierChangedStateCb(hp, host_set)} :
         /\ heap' = hp
         /\ host_set' = p.set
         /\ Traced("outlier", [NoStep EXCEPT !.prev_set = host_set,
                                             !.publishes = p.publishes])
    /\ UNCHANGED <<dyn_vars, create_vars, cluster, ctor_next, resolve_targets,
                   initialize_callback_, initialized_, init_calls, reader_view>>

\* The strict-DNS cluster is torn down: its targets are destroyed, and its
\* host set and hosts go with it.
DestroyCluster ==
  /\ cluster = "STRICT_DNS"
  /\ ctor_next > NumTargets
  /\ cluster' = "DESTROYED"
  /\ resolve_targets' = [t \in Targets |-> DestroyTarget(resolve_targets[t])]
  /\ host_set' = EmptyHostSet
  /\ heap' = [h \in HostIds |-> NoHost]
  /\ initialize_callback_' = FALSE
  /\ Traced("destroy", [NoStep EXCEPT
                          !.prev_targets = [u \in Targets |-> resolve_targets[u].hosts_],
                          !.prev_set = host_set])
  /\ UNCHANGED <<dyn_vars, create_vars, ctor_next, initialized_, init_calls, reader_view>>

\* h is in s, and s keeps the order of the list all.
SubList(s, all) ==
  LET In(h) == h \in Range(s)
  IN s = SelectSeq(all, In)

\* What a reader that obtains the current host set sees: whether every list
\* comes from one publish, and whether the healthy list is made of hosts of
\* the all-hosts list.
Observe(hs) ==
  [read |-> TRUE, whole |-> ~hs.torn,
   consistent |-> SubList(hs.healthy_hosts_, hs.hosts_)]

\* A reader that has not read yet.
NoView == [read |-> FALSE, whole |-> TRUE, consistent |-> TRUE]

\* A worker thread reads the published host set.
ReaderGet ==
  \E rd \in Readers :
    /\ cluster \in {"STATIC", "STRICT_DNS"}
    /\ reader_view' = [reader_view EXCEPT ![rd] = Observe(host_set)]
    /\ Traced("read", NoStep)
    /\ UNCHANGED <<heap, dyn_vars, create_vars, cluster, ctor_next, resolve_targets, host_set,
                   initialize_callback_, initialized_, init_calls>>

\* ------------------------------------------------------------- cluster creation
\* envoy::api::v2::Cluster::DiscoveryType
DiscoveryTypes == {"STATIC", "STRICT_DNS", "LOGICAL_DNS", "EDS", "ORIGINAL_DST"}

\* envoy::api::v2::Cluster::LbPolicy
LbPolicies ==
  {"ROUND_ROBIN", "LEAST_REQUEST", "RING_HASH", "RANDOM", "ORIGINAL_DST_LB", "STANDBY"}

\* envoy::api::v2::RoutingPriority as load is called with it.
RoutingPriorities == {"DEFAULT", "HIGH"}

\* The priority field of a thresholds entry: a RoutingPriority, or a value
\* that is none of them.
ThresholdPriorities == RoutingPriorities \cup {"UNSUPPORTED"}

LimitNames == {"max_connections", "max_pending_requests", "max_requests", "max_retries"}

\* A wrapped field that is absent, and one that is present with value v.
Unset == [has |-> FALSE, value |-> 0]
Wrapped(v) == [has |-> TRUE, value |-> v]

\* PROTOBUF_GET_WRAPPED_OR_DEFAULT
GetWrappedOrDefault(field, default_value) ==
  IF field.has THEN field.value ELSE default_value

\* The limits of the thresholds entries the configurations are drawn from.
ThresholdLimits ==
  {l \in [LimitNames -> {Unset, Wrapped(1)}] :
     l["max_pending_requests"] = l["max_requests"]}

Thresholds == [priority : ThresholdPriorities, limits : ThresholdLimits]

\* The cluster configurations creation is tried on.
Configs ==
  {c \in [type : DiscoveryTypes, lb_policy : LbPolicies,
           has_eds_cluster_config : BOOLEAN,
           thresholds : UNION {[1..n -> Thresholds] : n \in 0..MaxThresholds}] :
     c.has_eds_cluster_config => c.type = "EDS"}

NoConfig ==
  [type |-> "STATIC", lb_policy |-> "ROUND_ROBIN", has_eds_cluster_config |-> FALSE,
   thresholds |-> <<>>]

\* The arguments of a ResourceManagerImpl that was not built.
NoLimits == [l \in LimitNames |-> 0]

NoManagers == [p \in RoutingPriorities |-> NoLimits]

NotCreated == [status |-> "config", lb_type_ |-> "none", managers_ |-> NoManagers]

\* std::find_if over the thresholds from entry i on: the index of the first
\* entry of the priority, Len + 1 for cend().
RECURSIVE FindIf(_, _, _)
FindIf(thresholds, priority, i) ==
  IF i > Len(thresholds) THEN i
  ELSE IF thresholds[i].priority = priority THEN i
       ELSE FindIf(thresholds, priority, i + 1)

\* Mutant of load: the first thresholds entry is taken, whatever its priority.
loadFirstEntry(cfg, priority) ==
  LET thresholds == cfg.thresholds
      defaults == [max_connections |-> 1024, max_pending_requests |-> 1024,
                   max_requests |-> 1024, max_retries |-> 3]
  IN IF thresholds # <<>>
     THEN [l \in LimitNames |-> GetWrappedOrDefault(thresholds[1].limits[l], defaults[l])]
     ELSE defaults

\* ClusterInfoImpl::ResourceManagers::load: the ceilings the resource manager
\* of the priority is built with.
load(cfg, priority) ==
  LET max_connections == 1024
      max_pending_requests == 1024
      max_requests == 1024
      max_retries == 3
      thresholds == cfg.thresholds
      it == FindIf(thresholds, priority, 1)
  IN IF it # Len(thresholds) + 1
     THEN [max_connections |->
             GetWrappedOrDefault(thresholds[it].limits["max_connections"], max_connections),
           max_pending_requests |->
             GetWrappedOrDefault(thresholds[it].limits["max_pending_requests"],
                                 max_pending_requests),
           max_requests |->
             GetWrappedOrDefault(thresholds[it].limits["max_requests"], max_requests),
           max_retries |->
             GetWrappedOrDefault(thresholds[it].limits["max_retries"], max_retries)]
     ELSE [max_connections |-> max_connections,
           max_pending_requests |-> max_pending_requests,
           max_requests |-> max_requests, max_retries |-> max_retries]

\* ClusterInfoImpl::ResourceManagers::ResourceManagers
ResourceManagers(cfg) ==
  [p \in RoutingPriorities |-> load(cfg, p)]

\* The switch of the ClusterInfoImpl constructor: the load balancer type, or
\* "throw" for the EnvoyException.
LbType(cfg) ==
  CASE cfg.lb_policy = "ROUND_ROBIN" -> "RoundRobin"
    [] cfg.lb_policy = "LEAST_REQUEST" -> "LeastRequest"
    [] cfg.lb_policy = "RANDOM" -> "Random"
    [] cfg.lb_policy = "RING_HASH" -> "RingHash"
    [] cfg.lb_policy = "ORIGINAL_DST_LB" ->
         IF cfg.type # "ORIGINAL_DST" THEN "throw" ELSE "OriginalDst"
    [] cfg.lb_policy = "STANDBY" -> "StandBy"

\* ClusterImplBase::create throws before a cluster object is constructed.
CreateThrows ==
  /\ created.status = "config"
  /\ \/ config.type = "ORIGINAL_DST" /\ config.lb_policy # "ORIGINAL_DST_LB"
     \/ config.type = "EDS" /\ ~config.has_eds_cluster_config
  /\ created' = [created EXCEPT !.status = "error"]
  /\ UNCHANGED <<heap, last, op, tracing, dyn_vars, cluster_vars, config>>

\* ClusterImplBase::create constructs the cluster of the configured type,
\* and with it (ClusterImplBase::ClusterImplBase) its ClusterInfoImpl.
CreateNewCluster ==
  /\ created.status = "config"
  /\ ~(config.type = "ORIGINAL_DST" /\ config.lb_policy # "ORIGINAL_DST_LB")
  /\ ~(config.type = "EDS" /\ ~config.has_eds_cluster_config)
  /\ created' = [created EXCEPT !.status = "constructing"]
  /\ UNCHANGED <<heap, last, op, tracing, dyn_vars, cluster_vars, config>>

\* ClusterInfoImpl::ClusterInfoImpl: the resource managers are built by the
\* member initialisers, then the load balancer policy is resolved; an
\* exception leaves no cluster.
ClusterInfoImpl ==
  /\ created.status = "constructing"
  /\ \E managers \in {ResourceManagers(config)}, lb \in {LbType(config)} :
       created' = IF lb = "throw" THEN [created EXCEPT !.status = "error"]
                  ELSE [status |-> "constructed", lb_type_ |-> lb,
                        managers_ |-> managers]
  /\ UNCHANGED <<heap, last, op, tracing, dyn_vars, cluster_vars, config>>

InitCreate ==
  /\ config = NoConfig
  /\ created = NotCreated

InitCluster ==
  /\ cluster = "none"
  /\ ctor_next = 0
  /\ resolve_targets = [t \in Targets |-> NewTarget]
  /\ host_set = EmptyHostSet
  /\ initialize_callback_ = FALSE
  /\ initialized_ = FALSE
  /\ init_calls = 0
  /\ reader_view = [rd \in Readers |-> NoView]

InitDyn ==
  /\ discovery = "eds"
  /\ current_hosts = <<>>

Init ==
  /\ heap = [h \in HostIds |-> NoHost]
  /\ last = NoCall
  /\ op = "init"
  /\ tracing = FALSE
  /\ InitDyn
  /\ InitCluster
  /\ InitCreate

Next ==
  \/ StaticClusterImpl
  \/ StrictDnsClusterImpl
  \/ CtorStartResolve
  \/ ResolveTimer
  \/ Resolve
  \/ SetInitializedCb
  \/ HostCheckComplete
  \/ OutlierChangedState
  \/ ReaderGet

Spec == Init /\ [][Next]_vars

InitReconcile ==
  /\ heap = [h \in HostIds |-> NoHost]
  /\ discovery \in {"strict_dns", "eds"}
  /\ current_hosts = <<>>
  /\ last = NoCall
  /\ op = "init"
  /\ tracing = TRUE
  /\ InitCluster
  /\ InitCreate

NextReconcile ==
  \/ Update
  \/ HealthFlagSet
  \/ HealthFlagClear

SpecReconcile == InitReconcile /\ [][NextReconcile]_vars

\* The clusters with last and op recording each step.
InitTrace ==
  /\ heap = [h \in HostIds |-> NoHost]
  /\ last = NoStep
  /\ op = "init"
  /\ tracing = TRUE
  /\ InitDyn
  /\ InitCluster
  /\ InitCreate

\* A dynamic cluster: the reconciliation on its own, fed by any discovery, or
\* the strict-DNS cluster around it.  The record of the last step tells which.
ReconcileMode == "depend_on_hc" \in DOMAIN last

InitDynamic == InitReconcile \/ InitTrace

\* The strict-DNS cluster on its own.
NextDns ==
  \/ StrictDnsClusterImpl
  \/ CtorStartResolve
  \/ ResolveTimer
  \/ Resolve
  \/ SetInitializedCb

SpecDns == InitTrace /\ [][NextDns]_vars

NextDynamic ==
  \/ ReconcileMode /\ NextReconcile
  \/ ~ReconcileMode /\ NextDns

SpecDynamic == InitDynamic /\ [][NextDynamic]_vars

\* Every kind of publish: the static constructor, a DNS completion, and the
\* reload after a health check.
NextPublish ==
  \/ StaticClusterImpl
  \/ StrictDnsClusterImpl
  \/ CtorStartResolve
  \/ ResolveTimer
  \/ Resolve
  \/ HostCheckComplete

SpecPublish == InitTrace /\ [][NextPublish]_vars

\* A static cluster with its health checker and its outlier detector.
NextHealth ==
  \/ StaticClusterImpl
  \/ HostCheckComplete
  \/ OutlierChangedState

SpecHealth == InitTrace /\ [][NextHealth]_vars

\* The strict-DNS cluster with a resolver that answers every resolution and
\* timers that fire; the constructor runs to its end.
NextLive ==
  \/ StrictDnsClusterImpl
  \/ CtorStartResolve
  \/ ResolveTimer
  \/ Resolve
  \/ SetInitializedCb

SpecLive ==
  /\ Init
  /\ [][NextLive]_vars
  /\ WF_vars(CtorStartResolve)
  /\ \A t \in Targets : WF_vars(ResolveTimerOf(t)) /\ WF_vars(ResolveOf(t))

\* The strict-DNS cluster up to and after its teardown.
NextTeardown ==
  \/ StrictDnsClusterImpl
  \/ CtorStartResolve
  \/ ResolveTimer
  \/ Resolve
  \/ DestroyCluster

SpecTeardown == Init /\ [][NextTeardown]_vars

InitCreation ==
  /\ heap = [h \in HostIds |-> NoHost]
  /\ last = NoCall
  /\ op = "init"
  /\ tracing = FALSE
  /\ InitDyn
  /\ InitCluster
  /\ config \in Configs
  /\ created = NotCreated

NextCreation ==
  \/ CreateThrows
  \/ CreateNewCluster
  \/ ClusterInfoImpl

SpecCreate == InitCreation /\ [][NextCreation]_vars

\* ------------------------------------------------------------- properties
\* Candidate i is the first of its address in the candidate list vs.
IsFirst(vs, i) == \A j \in 1..(i - 1) : vs[j].address # vs[i].address

\* The candidates that are the first of their address, in candidate order.
RECURSIVE FirstsFrom(_, _)
FirstsFrom(vs, i) ==
  IF i > Len(vs) THEN <<>>
  ELSE IF IsFirst(vs, i) THEN <<vs[i]>> \o FirstsFrom(vs, i + 1)
       ELSE FirstsFrom(vs, i + 1)

Firsts(vs) == FirstsFrom(vs, 1)

\* The retained host that had address a when the call started.
PrevWith(a) == last.prev[CHOOSE i \in 1..Len(last.prev) : last.prev[i].address = a]

Stale(v) == v.address \notin AddrSet(last.new_hosts)

Removed(v) ==
  /\ v.id \in Range(Ids(last.hosts_removed))
  /\ v.id \notin Range(current_hosts)

Retained(v) ==
  /\ v.id \in Range(current_hosts)
  /\ v.id \notin Range(Ids(last.hosts_removed))

\* C1: after every updateDynamicHostList call with depend_on_hc = false the
\* retained list holds exactly one host for each distinct address of the
\* call's candidate list and no other; each host is a host retained before or
\* the first candidate of its address.
C1_UngatedAddressSet ==
  (op = "update" /\ ~last.depend_on_hc) =>
    /\ {heap[h].address : h \in Range(current_hosts)} = AddrSet(last.new_hosts)
    /\ \A i, j \in 1..Len(current_hosts) :
         heap[current_hosts[i]].address = heap[current_hosts[j]].address => i = j
    /\ \A h \in Range(current_hosts) :
         \/ h \in Range(Ids(last.prev))
         \/ \E i \in 1..Len(last.new_hosts) :
              last.new_hosts[i].id = h /\ IsFirst(last.new_hosts, i)

\* C1 witness: an ungated call on a non-empty list whose candidate list names
\* a new address twice.
C1_Witness ==
  /\ op = "update" /\ ~last.depend_on_hc
  /\ Len(last.prev) > 0
  /\ Len(last.new_hosts) = 2
  /\ last.new_hosts[1].address = last.new_hosts[2].address
  /\ last.new_hosts[1].address \notin AddrSet(last.prev)
  /\ current_hosts = <<last.new_hosts[1].id>>

\* C3 as claimed: with depend_on_hc = true a stale host without
\* FAILED_ACTIVE_HC is removed at once and a stale host with FAILED_ACTIVE_HC
\* stays in the final list.
C3_AsClaimed ==
  (op = "update" /\ last.depend_on_hc) =>
    \A i \in 1..Len(last.prev) :
      Stale(last.prev[i]) =>
        IF "FAILED_ACTIVE_HC" \in last.prev[i].health_flags
        THEN Retained(last.prev[i])
        ELSE Removed(last.prev[i])

\* C3 amended: with depend_on_hc = true a stale host without FAILED_ACTIVE_HC
\* stays in the final list and a stale host with FAILED_ACTIVE_HC is removed
\* at once (it is in hosts_removed and not in the final list).
C3_GatedStale ==
  (op = "update" /\ last.depend_on_hc) =>
    \A i \in 1..Len(last.prev) :
      Stale(last.prev[i]) =>
        IF "FAILED_ACTIVE_HC" \in last.prev[i].health_flags
        THEN Removed(last.prev[i])
        ELSE Retained(last.prev[i])

\* C3 witness: retained [A (no flag), B (failed active hc)] and an empty
\* candidate list: A stays, B is removed.
C3_Witness ==
  /\ op = "update" /\ last.depend_on_hc
  /\ last.new_hosts = <<>>
  /\ Len(last.prev) = 2
  /\ last.prev[1].health_flags = {}
  /\ last.prev[2].health_flags = {"FAILED_ACTIVE_HC"}
  /\ current_hosts = <<last.prev[1].id>>
  /\ Ids(last.hosts_removed) = <<last.prev[2].id>>

\* Address and weight of each host of a list, in order.
AddrWeights(vs) == [i \in 1..Len(vs) |-> <<vs[i].address, vs[i].weight>>]

\* C4: a call whose candidates have the addresses and weights of the
\* retained list returns false, adds and removes nothing, and leaves the
\* retained list holding the same objects.
C4_IdenticalList ==
  (op = "update" /\ AddrWeights(last.new_hosts) = AddrWeights(last.prev)) =>
    /\ ~last.changed
    /\ last.hosts_added = <<>>
    /\ last.hosts_removed = <<>>
    /\ current_hosts = Ids(last.prev)
    /\ Range(Ids(last.new_hosts)) \cap Range(current_hosts) = {}

\* C4 witness: such a call on a list of two hosts of different weights.
C4_Witness ==
  /\ op = "update"
  /\ Len(last.prev) = 2
  /\ AddrWeights(last.new_hosts) = AddrWeights(last.prev)
  /\ last.prev[1].weight # last.prev[2].weight
  /\ ~last.changed

\* C5: a candidate with the address of a retained host and another weight:
\* the retained object is in the final list with the candidate's weight
\* (clamped to [1,100]), its address and health flags as before; the candidate
\* object is neither in the final list nor in hosts_added.
C5_WeightInPlace ==
  op = "update" =>
    \A j \in 1..Len(last.new_hosts) :
      LET c == last.new_hosts[j]
      IN (IsFirst(last.new_hosts, j) /\ c.address \in AddrSet(last.prev)
            /\ PrevWith(c.address).weight # c.weight) =>
           LET p == PrevWith(c.address)
           IN /\ p.id \in Range(current_hosts)
              /\ heap[p.id].weight = HostImplWeight(c.weight)
              /\ heap[p.id].weight \in MinWeight..MaxWeight
              /\ heap[p.id].address = p.address
              /\ heap[p.id].health_flags = p.health_flags
              /\ c.id \notin Range(current_hosts)
              /\ c.id \notin Range(last.hosts_added)

\* C5 witness: a flagged retained host of weight 1 matched by a candidate of
\* weight 100.
C5_Witness ==
  /\ op = "update"
  /\ Len(last.prev) = 1 /\ Len(last.new_hosts) = 1
  /\ last.prev[1].address = last.new_hosts[1].address
  /\ last.prev[1].weight = 1 /\ last.new_hosts[1].weight = 100
  /\ last.prev[1].health_flags = {"FAILED_OUTLIER_CHECK"}
  /\ current_hosts = <<last.prev[1].id>>
  /\ heap[last.prev[1].id].weight = 100

\* C6: without health-check gating hosts_added is the de-duplicated
\* candidates whose address was not retained, hosts_removed the retained hosts
\* whose address is not a candidate's, no object is in both, and the final list
\* is, in candidate order, the matched retained object or the added candidate.
C6_UngatedDiff ==
  (op = "update" /\ ~last.depend_on_hc) =>
    LET firsts == Firsts(last.new_hosts)
        IsNew(c) == c.address \notin AddrSet(last.prev)
        Gone(p) == p.address \notin AddrSet(last.new_hosts)
    IN /\ last.hosts_added = Ids(SelectSeq(firsts, IsNew))
       /\ Ids(last.hosts_removed) = Ids(SelectSeq(last.prev, Gone))
       /\ Range(last.hosts_added) \cap Range(Ids(last.hosts_removed)) = {}
       /\ current_hosts =
            [k \in 1..Len(firsts) |->
               IF IsNew(firsts[k]) THEN firsts[k].id
               ELSE PrevWith(firsts[k].address).id]
       /\ \A p \in Range(last.prev) :
            p.id \in Range(current_hosts) =>
              heap[p.id].address = p.address /\ heap[p.id].health_flags = p.health_flags

\* C6 witness: a DNS target that held [10.0.0.1, 10.0.0.2] resolves to
\* [10.0.0.2, 10.0.0.3]: 10.0.0.3 is added, 10.0.0.1 removed, and the
\* 10.0.0.2 object is the one held before.
C6_Witness ==
  /\ discovery = "strict_dns" /\ op = "update" /\ ~last.depend_on_hc
  /\ Len(last.prev) = 2 /\ Len(last.new_hosts) = 2
  /\ last.prev[1].address = 1 /\ last.prev[2].address = 2
  /\ last.new_hosts[1].address = 2 /\ last.new_hosts[2].address = 3
  /\ last.hosts_added = <<last.new_hosts[2].id>>
  /\ Ids(last.hosts_removed) = <<last.prev[1].id>>
  /\ current_hosts = <<last.prev[2].id, last.new_hosts[2].id>>
  /\ last.changed


\* ------------------------------------------------------------- published host set
\* The hosts of a list that carry no health flag, in the order of the list.
NoFlagSet(hp, hosts) ==
  LET Clear(h) == hp[h].health_flags = {}
  IN SelectSeq(hosts, Clear)

\* C2: in every state of a constructed cluster the published healthy-hosts
\* list holds only host objects of the published all-hosts list, and after
\* every publish (the static constructor, updateAllHosts after a DNS
\* completion, reloadHealthyHosts) it is exactly the hosts of all-hosts with
\* no health flag set, in all-hosts order.  Every flag change reaches the
\* cluster together with its notification, so each state is the state right
\* after the latest publish.
C2_HealthyOfAll ==
  cluster # "none" =>
    /\ SubList(host_set.healthy_hosts_, host_set.hosts_)
    /\ host_set.healthy_hosts_ = NoFlagSet(heap, host_set.hosts_)

\* A strict-DNS cluster publishing three hosts: one failed its active health
\* check, one is ejected by the outlier detector only, one is healthy.
C2_Witness ==
  /\ cluster = "STRICT_DNS"
  /\ Len(host_set.hosts_) = 3
  /\ Len(host_set.healthy_hosts_) = 1
  /\ \E h \in Range(host_set.hosts_) : heap[h].health_flags = {"FAILED_OUTLIER_CHECK"}
  /\ \E h \in Range(host_set.hosts_) : heap[h].health_flags = {"FAILED_ACTIVE_HC"}

C8_OneOutstanding ==
  cluster = "STRICT_DNS" =>
    \A t \in Targets :
      /\ resolve_targets[t].pending <= 1
      /\ resolve_targets[t].timer_enabled => resolve_targets[t].pending = 0
      /\ resolve_targets[t].active_query_ <=> resolve_targets[t].pending = 1

\* A target that holds hosts of an earlier completion is resolving again while
\* the other target waits for its timer.
C8_Witness ==
  /\ cluster = "STRICT_DNS"
  /\ \E t \in Targets :
       /\ resolve_targets[t].pending = 1
       /\ resolve_targets[t].hosts_ # <<>>
       /\ \E u \in Targets \ {t} : resolve_targets[u].timer_enabled

\* A step in which the resolution of some target completes.
Completion ==
  \E t \in Targets : resolve_targets'[t].pending < resolve_targets[t].pending

\* C9: the registered initialize callback of a strict-DNS cluster runs once:
\* it is registered only while no resolution has completed, the first
\* completion of any target runs it and unregisters it, whatever the other
\* targets have done, and no later completion runs it again.
C9_InitializeOnce ==
  /\ [](/\ init_calls <= 1
        /\ initialize_callback_ => (init_calls = 0 /\ ~initialized_))
  /\ [][Completion =>
          /\ ~initialize_callback_'
          /\ initialized_'
          /\ init_calls' = IF initialize_callback_ THEN 1 ELSE init_calls]_vars

\* The callback has run while one target has not completed a resolution, and
\* the target that completed is already resolving again.
C9_Witness ==
  /\ cluster = "STRICT_DNS"
  /\ init_calls = 1
  /\ \E t \in Targets :
       /\ resolve_targets[t].pending = 1
       /\ resolve_targets[t].hosts_ # <<>>
       /\ \E u \in Targets \ {t} :
            /\ resolve_targets[u].pending = 1
            /\ resolve_targets[u].hosts_ = <<>>


\* ------------------------------------------------------------- circuit breakers
\* The thresholds list has an entry whose priority is not a supported one.
HasUnsupported(cfg) ==
  \E i \in 1..Len(cfg.thresholds) : cfg.thresholds[i].priority = "UNSUPPORTED"

\* C10 as claimed: creating a cluster from a configuration with a thresholds
\* entry of an unsupported priority fails; no cluster is constructed.
C10_AsClaimed ==
  HasUnsupported(config) => created.status # "constructed"

\* The load balancer policy and the discovery type do not go together, or an
\* EDS cluster has no EDS configuration.
InvalidConfig(cfg) ==
  \/ (cfg.type = "ORIGINAL_DST") # (cfg.lb_policy = "ORIGINAL_DST_LB")
  \/ cfg.type = "EDS" /\ ~cfg.has_eds_cluster_config

\* The ceilings of priority p: those of the first thresholds entry of that
\* priority, 1024 / 1024 / 1024 / 3 where it sets none or there is no entry.
ExpectedLimits(cfg, p) ==
  LET of_p == {i \in 1..Len(cfg.thresholds) : cfg.thresholds[i].priority = p}
      first == CHOOSE i \in of_p : \A j \in of_p : i <= j
      Ceiling(l) == IF l = "max_retries" THEN 3 ELSE 1024
  IN [l \in LimitNames |->
        IF of_p # {} /\ cfg.thresholds[first].limits[l].has
        THEN cfg.thresholds[first].limits[l].value
        ELSE Ceiling(l)]

\* C10, amended: a thresholds entry of an unsupported priority is ignored.
\* Creation fails exactly when the configuration is invalid for another
\* reason, and a constructed cluster has, for Default and for High, the
\* ceilings of the first thresholds entry of that priority, defaults otherwise.
C10_UnsupportedIgnored ==
  /\ created.status = "error" => InvalidConfig(config)
  /\ created.status = "constructed" =>
       /\ ~InvalidConfig(config)
       /\ \A p \in RoutingPriorities : created.managers_[p] = ExpectedLimits(config, p)

\* A cluster was constructed from a configuration whose first thresholds
\* entry has an unsupported priority and sets ceilings, followed by an entry
\* for High: Default runs on the defaults, High on its entry.
C10_Witness ==
  /\ created.status = "constructed"
  /\ Len(config.thresholds) = 2
  /\ config.thresholds[1].priority = "UNSUPPORTED"
  /\ config.thresholds[1].limits["max_connections"].has
  /\ config.thresholds[2].priority = "HIGH"
  /\ config.thresholds[2].limits["max_retries"].has
  /\ created.managers_["DEFAULT"]["max_connections"] = 1024
  /\ created.managers_["HIGH"]["max_retries"] = 1


\* ------------------------------------------------------------- changed flag, gating
\* C14 as claimed: the call returns true exactly when it added a host or a
\* retained host was matched by no candidate, so also when every such host is
\* kept by the gating.
C14_AsClaimed ==
  op = "update" =>
    (last.changed <=>
       \/ last.hosts_added # <<>>
       \/ \E i \in 1..Len(last.prev) : Stale(last.prev[i]))

\* C14 amended: the call returns true exactly when it added a host or a
\* retained host is left after the stale-host pass, that is when hosts_removed
\* is not empty: a host matched by no candidate and, with depend_on_hc, with
\* FAILED_ACTIVE_HC set.  It returns false when nothing is added and every
\* stale host is kept by the gating.
C14_ChangedIffDiff ==
  op = "update" =>
    /\ last.changed <=> (last.hosts_added # <<>> \/ last.hosts_removed # <<>>)
    /\ last.hosts_removed # <<>> <=>
         \E i \in 1..Len(last.prev) :
           /\ Stale(last.prev[i])
           /\ last.depend_on_hc => "FAILED_ACTIVE_HC" \in last.prev[i].health_flags

\* A gated call that adds nothing and keeps its only stale host returns false.
C14_Witness ==
  /\ op = "update" /\ last.depend_on_hc
  /\ Len(last.prev) = 2
  /\ Len(last.new_hosts) = 1
  /\ last.new_hosts[1].address = last.prev[2].address
  /\ "FAILED_ACTIVE_HC" \notin last.prev[1].health_flags
  /\ current_hosts = <<last.prev[2].id, last.prev[1].id>>
  /\ ~last.changed

\* C15: under gating stale hosts are deleted only if unhealthy.  In every
\* gated reconciliation a retained host whose address is not a candidate's
\* stays in the retained list, unchanged, when its FAILED_ACTIVE_HC is clear,
\* and is put in hosts_removed and leaves the list when it is set; so over any
\* sequence of gated reconciliations an absent host stays for as long as the
\* flag is clear and goes at the first one that finds it set.
C15_DeletedOnlyIfUnhealthy ==
  [][(op' = "update" /\ last'.depend_on_hc) =>
       \A i \in 1..Len(current_hosts) :
         LET h == current_hosts[i]
             v == last'.prev[i]
         IN heap[h].address \notin AddrSet(last'.new_hosts) =>
              IF healthFlagGet(heap, h, "FAILED_ACTIVE_HC")
              THEN /\ v.id \in Range(Ids(last'.hosts_removed))
                   /\ v.id \notin Range(current_hosts')
              ELSE /\ v.id \in Range(current_hosts')
                   /\ v.id \notin Range(Ids(last'.hosts_removed))
                   /\ heap'[v.id] = heap[h]]_vars

\* A host ejected by the outlier detector only is absent from a gated
\* candidate list that names a new address: it stays, behind the new host.
C15_Witness ==
  /\ op = "update" /\ last.depend_on_hc
  /\ Len(last.prev) = 1 /\ Len(last.new_hosts) = 1
  /\ last.prev[1].health_flags = {"FAILED_OUTLIER_CHECK"}
  /\ last.prev[1].address # last.new_hosts[1].address
  /\ current_hosts = <<last.new_hosts[1].id, last.prev[1].id>>
  /\ last.hosts_removed = <<>>

\* C16: with depend_on_hc = true every added host has FAILED_ACTIVE_HC set on
\* return and is not in the healthy list made of the retained list; with
\* depend_on_hc = false an added host has the health flags of the candidate;
\* in both modes a retained host matched by a candidate stays with its flags.
C16_AddedStartUnhealthy ==
  op = "update" =>
    /\ \A j \in 1..Len(last.new_hosts) :
         LET c == last.new_hosts[j]
         IN c.id \in Range(last.hosts_added) =>
              /\ c.address \notin AddrSet(last.prev)
              /\ heap[c.id].health_flags =
                   IF last.depend_on_hc THEN c.health_flags \cup {"FAILED_ACTIVE_HC"}
                   ELSE c.health_flags
              /\ last.depend_on_hc =>
                   c.id \notin Range(createHealthyHostList(heap, current_hosts))
    /\ \A i \in 1..Len(last.prev) :
         ~Stale(last.prev[i]) =>
           /\ last.prev[i].id \in Range(current_hosts)
           /\ heap[last.prev[i].id].health_flags = last.prev[i].health_flags

\* A gated call matches a healthy retained host and adds a new one: the healthy
\* list holds the matched host only.
C16_Witness ==
  /\ op = "update" /\ last.depend_on_hc
  /\ Len(last.prev) = 1 /\ Len(last.new_hosts) = 2
  /\ last.prev[1].health_flags = {}
  /\ last.new_hosts[2].address = last.prev[1].address
  /\ last.hosts_added = <<last.new_hosts[1].id>>
  /\ current_hosts = <<last.new_hosts[1].id, last.prev[1].id>>
  /\ createHealthyHostList(heap, current_hosts) = <<last.prev[1].id>>


\* ------------------------------------------------------------- publishes
\* The hosts_ of the targets up to target t, in target order.
RECURSIVE UpTo(_, _)
UpTo(tgts, t) == IF t = 0 THEN <<>> ELSE UpTo(tgts, t - 1) \o tgts[t].hosts_

\* C11: every publish increments membership_change exactly when the
\* hosts_added or hosts_removed of the publish is not empty (those of the
\* reconciliation for a DNS completion, none for the static constructor and a
\* reload), and sets membership_healthy and membership_total to the sizes of
\* the healthy-hosts and all-hosts lists just published, before the
\* member-update callbacks run.
C11_MembershipStats ==
  \A i \in 1..Len(last.publishes) :
    LET p == last.publishes[i]
    IN /\ p.hosts_added = last.hosts_added
       /\ p.hosts_removed = last.hosts_removed
       /\ p.membership_change_inc <=>
            (last.hosts_added # <<>> \/ last.hosts_removed # <<>>)
       /\ p.membership_healthy_ = Len(host_set.healthy_hosts_)
       /\ p.membership_total_ = Len(host_set.hosts_)
       /\ p.order = <<"stats", "callbacks">>

\* A DNS completion that only removes a host publishes: the counter is
\* incremented and the gauges show the new, smaller sizes, one host unhealthy.
C11_Witness ==
  /\ op = "resolve"
  /\ Len(last.publishes) = 1
  /\ last.hosts_added = <<>>
  /\ last.hosts_removed # <<>>
  /\ last.publishes[1].membership_change_inc
  /\ last.publishes[1].membership_total_ = 2
  /\ Len(last.prev_set.hosts_) = 3
  /\ last.publishes[1].membership_healthy_ = 1
  /\ Len(last.prev_set.healthy_hosts_) = 1

\* C13: a DNS completion with an empty address list is reconciled like any
\* other: the target's list becomes empty, all its prior hosts are in
\* hosts_removed, none is added; when it held hosts the cluster-wide list is
\* republished without them; and the target's timer is armed.
C13_EmptyAnswer ==
  (op = "resolve" /\ last.new_hosts = <<>>) =>
    LET t == last.target
        prior == last.prev_targets[t]
    IN /\ resolve_targets[t].hosts_ = <<>>
       /\ last.hosts_added = <<>>
       /\ last.hosts_removed = prior
       /\ last.changed <=> prior # <<>>
       /\ prior # <<>> =>
            /\ Len(last.publishes) = 1
            /\ last.publishes[1].hosts_removed = prior
            /\ Range(host_set.hosts_) \cap Range(prior) = {}
            /\ Len(host_set.hosts_) = Len(last.prev_set.hosts_) - Len(prior)
       /\ resolve_targets[t].timer_enabled
       /\ ~resolve_targets[t].active_query_

\* A target holding two hosts gets an empty answer while another target holds
\* a host: the cluster is left with the other target's host.
C13_Witness ==
  /\ op = "resolve" /\ last.new_hosts = <<>>
  /\ Len(last.prev_targets[last.target]) = 2
  /\ Len(last.prev_set.hosts_) = 3
  /\ Len(host_set.hosts_) = 1
  /\ resolve_targets[last.target].timer_enabled

\* C17: a DNS completion that changes its target's list publishes as all-hosts
\* the lists of all targets, in target order; the lists of the other targets
\* are as before; and the added and removed hosts handed to the callbacks are
\* the hosts all-hosts gained and lost.
C17_AllTargetsPublished ==
  (op = "resolve" /\ last.changed) =>
    /\ Len(last.publishes) = 1
    /\ host_set.hosts_ = UpTo(resolve_targets, NumTargets)
    /\ \A u \in Targets \ {last.target} :
         resolve_targets[u].hosts_ = last.prev_targets[u]
    /\ Range(last.publishes[1].hosts_added) =
         Range(host_set.hosts_) \ Range(last.prev_set.hosts_)
    /\ Range(last.publishes[1].hosts_removed) =
         Range(last.prev_set.hosts_) \ Range(host_set.hosts_)

\* The first target swaps one host for another while the last target holds
\* two hosts.
C17_Witness ==
  /\ op = "resolve" /\ last.changed /\ last.target = 1
  /\ Len(last.hosts_added) = 1
  /\ Len(last.hosts_removed) = 1
  /\ Len(resolve_targets[NumTargets].hosts_) = 2
  /\ Len(host_set.hosts_) = 3

\* C18: reloadHealthyHosts republishes the all-hosts list and the by-zone
\* grouping as they were, the same objects in the same order; only the healthy
\* lists are recomputed; the callbacks get empty added and removed lists and
\* membership_change is not incremented.
C18_ReloadKeepsMembership ==
  (op = "host_check" /\ last.publishes # <<>>) =>
    /\ host_set.hosts_ = last.prev_set.hosts_
    /\ host_set.hosts_per_zone_ = last.prev_set.hosts_per_zone_
    /\ host_set.healthy_hosts_ = NoFlagSet(heap, host_set.hosts_)
    /\ \A i \in 1..Len(last.publishes) :
         /\ last.publishes[i].hosts_added = <<>>
         /\ last.publishes[i].hosts_removed = <<>>
         /\ ~last.publishes[i].membership_change_inc

\* A host of a strict-DNS cluster with three healthy hosts fails its health
\* check: three hosts stay published, two of them healthy.
C18_Witness ==
  /\ op = "host_check" /\ last.publishes # <<>>
  /\ cluster = "STRICT_DNS"
  /\ Len(host_set.hosts_) = 3
  /\ Len(last.prev_set.healthy_hosts_) = 3
  /\ Len(host_set.healthy_hosts_) = 2

\* C19: a health-check completion republishes (reloadHealthyHosts) exactly
\* when it reports a state change, and leaves the host set untouched when it
\* reports none; every state change of the outlier detector republishes.
C19_ReloadOnChange ==
  /\ op = "host_check" =>
       /\ Len(last.publishes) = (IF last.changed_state THEN 1 ELSE 0)
       /\ ~last.changed_state => host_set = last.prev_set
  /\ op = "outlier" => Len(last.publishes) = 1
  /\ op \in {"host_check", "outlier"} =>
       host_set.healthy_hosts_ = NoFlagSet(heap, host_set.hosts_)

\* A health check that reports no change on a cluster with one of two hosts
\* ejected: nothing is published.
C19_Witness ==
  /\ op = "host_check" /\ ~last.changed_state
  /\ last.publishes = <<>>
  /\ Len(host_set.hosts_) = 2
  /\ Len(host_set.healthy_hosts_) = 1

\* ------------------------------------------------------------- teardown, refresh
\* C12: destroying a resolve target cancels its outstanding resolution, once,
\* and cancels nothing when none is outstanding; a destroyed target has no
\* resolution outstanding and no timer armed, and no later step touches the
\* targets or publishes.
C12_CancelOnDestroy ==
  /\ [](cluster = "DESTROYED" =>
          \A t \in Targets :
            /\ resolve_targets[t].pending = 0
            /\ ~resolve_targets[t].timer_enabled
            /\ resolve_targets[t].cancels <= 1)
  /\ [][(cluster = "STRICT_DNS" /\ cluster' = "DESTROYED") =>
          \A t \in Targets :
            resolve_targets'[t].cancels =
              IF resolve_targets[t].active_query_ THEN 1 ELSE 0]_vars
  /\ [][cluster = "DESTROYED" =>
          UNCHANGED <<resolve_targets, host_set, heap>>]_vars

\* The cluster was destroyed while one target was resolving and another was
\* waiting for its timer.
C12_Witness ==
  /\ cluster = "DESTROYED"
  /\ initialized_
  /\ \E t \in Targets :
       /\ resolve_targets[t].cancels = 1
       /\ \E u \in Targets \ {t} : resolve_targets[u].cancels = 0

\* C20: the refresh timer of a target is armed by its resolution completions
\* and by nothing else, on every completion; with a resolver that answers and
\* timers that fire, an armed timer leads to a new resolution of the target,
\* and every target of a strict-DNS cluster resolves again and again.
C20_RefreshForever ==
  /\ [][\A t \in Targets :
          (resolve_targets'[t].timer_enabled /\ ~resolve_targets[t].timer_enabled)
            <=> resolve_targets'[t].pending < resolve_targets[t].pending]_vars
  /\ \A t \in Targets :
       [](resolve_targets[t].timer_enabled => <>(resolve_targets[t].pending = 1))
  /\ \A t \in Targets :
       []<>(cluster = "none" \/ resolve_targets[t].pending = 1)

\* A target whose answers were empty from the start has its timer armed.
C20_Witness ==
  /\ cluster = "STRICT_DNS"
  /\ initialized_
  /\ \E t \in Targets :
       /\ resolve_targets[t].timer_enabled
       /\ resolve_targets[t].hosts_ = <<>>
       /\ \E u \in Targets \ {t} : resolve_targets[u].hosts_ # <<>>


\* ------------------------------------------------------------- silent install
\* C21: an ungated updateDynamicHostList whose candidates have the address set
\* of the retained list returns false and reports nothing added or removed,
\* yet the retained list, still the same objects, is in the order of the
\* candidates (the first of each address) with the candidates' weights; and a
\* DNS completion whose reconciliation returned false publishes nothing and
\* leaves the published host set as it was, while the target's list is in the
\* order of the answer.
C21_SilentInstall ==
  /\ (ReconcileMode /\ op = "update" /\ ~last.depend_on_hc
        /\ AddrSet(last.new_hosts) = AddrSet(last.prev)) =>
       LET f == Firsts(last.new_hosts)
       IN /\ ~last.changed
          /\ last.hosts_added = <<>>
          /\ last.hosts_removed = <<>>
          /\ Range(current_hosts) = Range(Ids(last.prev))
          /\ Len(current_hosts) = Len(f)
          /\ \A i \in 1..Len(f) :
               /\ heap[current_hosts[i]].address = f[i].address
               /\ heap[current_hosts[i]].weight = HostImplWeight(f[i].weight)
               /\ current_hosts[i] = PrevWith(f[i].address).id
  /\ (~ReconcileMode /\ op = "resolve"
        /\ AddrSet(last.new_hosts) =
             {heap[h].address : h \in Range(last.prev_targets[last.target])}) =>
       LET f == Firsts(last.new_hosts)
           hosts == resolve_targets[last.target].hosts_
       IN /\ ~last.changed
          /\ Range(hosts) = Range(last.prev_targets[last.target])
          /\ Len(hosts) = Len(f)
          /\ \A i \in 1..Len(f) : heap[hosts[i]].address = f[i].address
  /\ (~ReconcileMode /\ op = "resolve" /\ ~last.changed) =>
       /\ last.publishes = <<>>
       /\ host_set = last.prev_set

\* A DNS answer with the target's two addresses the other way round: nothing
\* is published, and the published all-hosts list is no longer the targets'
\* lists one after the other.
C21_Witness ==
  /\ ~ReconcileMode /\ op = "resolve" /\ ~last.changed
  /\ Len(last.new_hosts) = 2
  /\ Len(resolve_targets[last.target].hosts_) = 2
  /\ resolve_targets[last.target].hosts_ # last.prev_targets[last.target]
  /\ Range(host_set.hosts_) = Range(UpTo(resolve_targets, NumTargets))
  /\ host_set.hosts_ # UpTo(resolve_targets, NumTargets)


\* ------------------------------------------------------------- order in a completion
\* C22: when the initialize callback runs in a DNS completion, the query
\* handle of the completing target is already cleared, the reconciliation and
\* its publish (if the list changed) are done, so that the published all-hosts
\* list is the one the step ends with and holds every host of the completing
\* target, and the refresh timer is not armed yet; it is armed when the step
\* ends.
C22_InitializeAfterPublish ==
  (op = "resolve" /\ last.at_initialize.ran) =>
    LET seen == last.at_initialize
        tg == resolve_targets[last.target]
    IN /\ ~seen.active_query_
       /\ seen.publishes = Len(last.publishes)
       /\ last.changed => seen.publishes = 1
       /\ seen.hosts_ = host_set.hosts_
       /\ Range(tg.hosts_) \subseteq Range(seen.hosts_)
       /\ Len(tg.hosts_) = Cardinality(AddrSet(last.new_hosts))
       /\ ~seen.timer_enabled
       /\ tg.timer_enabled /\ ~tg.active_query_

\* The first completion of a cluster with a registered initialize callback
\* resolves two hosts: the callback finds both published.
C22_Witness ==
  /\ op = "resolve" /\ last.at_initialize.ran
  /\ last.changed
  /\ Len(resolve_targets[last.target].hosts_) = 2
  /\ Len(last.at_initialize.hosts_) = 2
  /\ Len(last.prev_set.hosts_) = 0
  /\ init_calls = 1


\* ------------------------------------------------------------- published = retained
\* How often h occurs in the list q.
Count(q, h) == Cardinality({i \in 1..Len(q) : q[i] = h})

\* C23: in a strict-DNS cluster, after every resolution completion, changed or
\* not, and after every reloadHealthyHosts, the published all-hosts list holds
\* the host objects of the targets' lists, each as often as the targets' lists
\* hold it; a host the completion removed from its target is not published.
C23_PublishedIsRetained ==
  (cluster = "STRICT_DNS" /\ op \in {"resolve", "host_check"}) =>
    /\ \A h \in HostIds :
         Count(host_set.hosts_, h) = Count(UpTo(resolve_targets, NumTargets), h)
    /\ Len(host_set.hosts_) = Len(UpTo(resolve_targets, NumTargets))
    /\ op = "resolve" =>
         /\ Range(last.hosts_removed) \cap Range(host_set.hosts_) = {}
         /\ Range(last.hosts_removed) \cap
              Range(UpTo(resolve_targets, NumTargets)) = {}
         /\ Range(last.hosts_removed) \subseteq Range(last.prev_set.hosts_)

\* A reload after a completion that only re-ordered its target's list: three
\* hosts are published, in an order that is not the targets' order.
C23_Witness ==
  /\ cluster = "STRICT_DNS" /\ op = "host_check"
  /\ last.publishes # <<>>
  /\ Len(host_set.hosts_) = 3
  /\ host_set.hosts_ # UpTo(resolve_targets, NumTargets)
  /\ \A t \in Targets : resolve_targets[t].hosts_ # <<>>

====
